---- MODULE Spec2Model ----
(***************************************************************************)
(* Two independent scripts of the repository:                              *)
(*   - the Document Appender, write_body.py (SpecAppender)                 *)
(*   - the Screenshot Capture Driver, screenshot_site.py (SpecCapture)     *)
(* File contents are byte sequences; text is a sequence of code points.    *)
(***************************************************************************)
EXTENDS Integers, Sequences, FiniteSets

\* ---------------------------------------------------------------- bounds
MaxTargetLen == 2
MaxBodyLen == 2
MaxRuns == 2

\* ------------------------------------------------------------- byte model
LF == 10
CR == 13

\* bytes the files are built from: LF, CR, 'a', and the two bytes of U+00E9
\* (0xC3 0xA9), either of which alone is not valid UTF-8
Byte == {LF, CR, 97, 195, 169}

BytesUpTo(n) == UNION {[1..k -> Byte] : k \in 0..n}

IsCont(b) == b >= 128 /\ b <= 191
IsLead2(b) == b >= 194 /\ b <= 223

RECURSIVE IsUtf8(_)
\* whether decoding with encoding="utf-8" (errors="strict") succeeds
IsUtf8(bs) ==
  IF bs = <<>> THEN TRUE
  ELSE IF Head(bs) < 128 THEN IsUtf8(Tail(bs))
  ELSE IF IsLead2(Head(bs)) /\ Len(bs) >= 2 /\ IsCont(bs[2])
       THEN IsUtf8(Tail(Tail(bs)))
  ELSE FALSE

RECURSIVE DecodeUtf8(_)
\* bytes -> code points, for a valid sequence
DecodeUtf8(bs) ==
  IF bs = <<>> THEN <<>>
  ELSE IF Head(bs) < 128 THEN <<Head(bs)>> \o DecodeUtf8(Tail(bs))
  ELSE <<(Head(bs) - 192) * 64 + (bs[2] - 128)>> \o DecodeUtf8(Tail(Tail(bs)))

RECURSIVE EncodeUtf8(_)
\* code points -> bytes
EncodeUtf8(cs) ==
  IF cs = <<>> THEN <<>>
  ELSE IF Head(cs) < 128 THEN <<Head(cs)>> \o EncodeUtf8(Tail(cs))
  ELSE <<192 + (Head(cs) \div 64), 128 + (Head(cs) % 64)>> \o EncodeUtf8(Tail(cs))

RECURSIVE UniversalNewlines(_)
\* text-mode read with newline=None: "\r\n" and a lone "\r" become "\n"
UniversalNewlines(cs) ==
  IF cs = <<>> THEN <<>>
  ELSE IF Head(cs) = CR
       THEN IF Len(cs) >= 2 /\ cs[2] = LF
            THEN <<LF>> \o UniversalNewlines(Tail(Tail(cs)))
            ELSE <<LF>> \o UniversalNewlines(Tail(cs))
  ELSE <<Head(cs)>> \o UniversalNewlines(Tail(cs))

RECURSIVE WriteNewlines(_, _)
\* text-mode write with newline=None: every "\n" becomes os.linesep
WriteNewlines(cs, sep) ==
  IF cs = <<>> THEN <<>>
  ELSE IF Head(cs) = LF THEN sep \o WriteNewlines(Tail(cs), sep)
  ELSE <<Head(cs)>> \o WriteNewlines(Tail(cs), sep)

\* Path.read_text(encoding="utf-8") of a file holding bs
ReadText(bs) == UniversalNewlines(DecodeUtf8(bs))

\* the bytes Path.write_text(s, encoding="utf-8") puts in the file
WriteTextBytes(s, sep) == EncodeUtf8(WriteNewlines(s, sep))

\* os.linesep of the platform the script runs on: POSIX or Windows
LineSeps == {<<LF>>, <<CR, LF>>}

Prefixes(bs) == {SubSeq(bs, 1, k) : k \in 0..Len(bs)}

\* the page variables of the Capture Driver: page, mobile, tablet
Handles == {"page", "mobile", "tablet"}

\* a page variable not yet assigned
NoPage == [state |-> "unbound", viewport |-> "-", url |-> "-", scheme |-> "-"]

VARIABLES
  apc,          \* Appender: statement about to run, or "done" / "failed"
  targetExists, \* whether the target path exists
  targetData,   \* bytes of the target file
  bodyExists,   \* whether the body path exists
  bodyData,     \* bytes of the body file
  linesep,      \* os.linesep
  current,      \* local `current`
  body,         \* local `body`
  aout,         \* sizes printed by the Appender, in order
  runs,         \* number of runs of the Appender started
  origTarget,   \* bytes of the target file before the first run
  origExists,   \* whether the target existed before the first run
  origBody,     \* bytes of the body file before the first run
  startData     \* bytes of the target file when the current run started

avars == <<apc, targetExists, targetData, bodyExists, bodyData, linesep,
           current, body, aout, runs, origTarget, origExists, origBody,
           startData>>

VARIABLES
  cpc,       \* Capture Driver: index in Steps of the statement about to run
  cstatus,   \* "running", "raised" (exception propagating), "exit0", "exit1"
  pw,        \* the sync_playwright() scope: "none", "started", "stopped"
  browser,   \* the browser handle: "none", "open", "closed"
  pages,     \* per page variable: state, viewport, url, color scheme
  files,     \* paths under screenshots/ written, in order
  cout,      \* lines printed by the Capture Driver, in order
  releases,  \* release calls performed, in order
  raisedAt   \* index of the statement that raised, 0 if none

cvars == <<cpc, cstatus, pw, browser, pages, files, cout, releases, raisedAt>>

vars == <<avars, cvars>>

InitAppender ==
  /\ apc = "read_target"
  /\ targetExists \in BOOLEAN
  /\ targetData \in (IF targetExists THEN BytesUpTo(MaxTargetLen) ELSE {<<>>})
  /\ bodyExists \in BOOLEAN
  /\ bodyData \in (IF bodyExists THEN BytesUpTo(MaxBodyLen) ELSE {<<>>})
  /\ linesep \in LineSeps
  /\ current = <<>>
  /\ body = <<>>
  /\ aout = <<>>
  /\ runs = 1
  /\ origTarget = targetData
  /\ origExists = targetExists
  /\ origBody = bodyData
  /\ startData = targetData
  \* the Capture Driver is not started
  /\ cpc = 1
  /\ cstatus = "running"
  /\ pw = "none"
  /\ browser = "none"
  /\ pages = [h \in Handles |-> NoPage]
  /\ files = <<>>
  /\ cout = <<>>
  /\ releases = <<>>
  /\ raisedAt = 0

\* variant: a missing target reads as empty text (opened in a creating mode)
ReadTarget_CreatesMissing ==
  /\ apc = "read_target"
  /\ targetExists => IsUtf8(targetData)
  /\ current' = IF targetExists THEN ReadText(targetData) ELSE <<>>
  /\ apc' = "read_body"
  /\ UNCHANGED <<targetExists, targetData, bodyExists, bodyData, linesep,
                 body, aout, runs, origTarget, origExists, origBody,
                 startData>>
  /\ UNCHANGED cvars

\* current = target.read_text(encoding="utf-8")
ReadTarget ==
  /\ apc = "read_target"
  /\ targetExists
  /\ IsUtf8(targetData)
  /\ current' = ReadText(targetData)
  /\ apc' = "read_body"
  /\ UNCHANGED <<targetExists, targetData, bodyExists, bodyData, linesep,
                 body, aout, runs, origTarget, origExists, origBody,
                 startData>>
  /\ UNCHANGED cvars

\* target.read_text raises: FileNotFoundError, UnicodeDecodeError, or
\* another OSError (unreadable)
ReadTargetFails ==
  /\ apc = "read_target"
  /\ apc' = "failed"
  /\ UNCHANGED <<targetExists, targetData, bodyExists, bodyData, linesep,
                 current, body, aout, runs, origTarget, origExists, origBody,
                 startData>>
  /\ UNCHANGED cvars

\* body = body_path.read_text(encoding="utf-8")
ReadBody ==
  /\ apc = "read_body"
  /\ bodyExists
  /\ IsUtf8(bodyData)
  /\ body' = ReadText(bodyData)
  /\ apc' = "write_target"
  /\ UNCHANGED <<targetExists, targetData, bodyExists, bodyData, linesep,
                 current, aout, runs, origTarget, origExists, origBody,
                 startData>>
  /\ UNCHANGED cvars

\* body_path.read_text raises
ReadBodyFails ==
  /\ apc = "read_body"
  /\ apc' = "failed"
  /\ UNCHANGED <<targetExists, targetData, bodyExists, bodyData, linesep,
                 current, body, aout, runs, origTarget, origExists, origBody,
                 startData>>
  /\ UNCHANGED cvars

\* variant: the target is opened in append mode, not truncated
WriteTarget_AppendMode ==
  /\ apc = "write_target"
  /\ targetExists' = TRUE
  /\ targetData' = targetData \o WriteTextBytes(current \o body, linesep)
  /\ apc' = "stat_print"
  /\ UNCHANGED <<bodyExists, bodyData, linesep, current, body, aout, runs,
                 origTarget, origExists, origBody,
                 startData>>
  /\ UNCHANGED cvars

\* target.write_text(current + body, encoding="utf-8") completes
WriteTarget ==
  /\ apc = "write_target"
  /\ targetExists' = TRUE
  /\ targetData' = WriteTextBytes(current \o body, linesep)
  /\ apc' = "stat_print"
  /\ UNCHANGED <<bodyExists, bodyData, linesep, current, body, aout, runs,
                 origTarget, origExists, origBody,
                 startData>>
  /\ UNCHANGED cvars

\* write_text raises when opening the file for writing (not writable):
\* nothing is truncated
WriteTargetDenied ==
  /\ apc = "write_target"
  /\ apc' = "failed"
  /\ UNCHANGED <<targetExists, targetData, bodyExists, bodyData, linesep,
                 current, body, aout, runs, origTarget, origExists, origBody,
                 startData>>
  /\ UNCHANGED cvars

\* write_text raises after open(mode="w") truncated the file: a proper
\* prefix of the new bytes is left (I/O error while writing or flushing)
WriteTargetTorn ==
  /\ apc = "write_target"
  /\ \E p \in Prefixes(WriteTextBytes(current \o body, linesep)) :
       /\ p # WriteTextBytes(current \o body, linesep)
       /\ targetData' = p
  /\ targetExists' = TRUE
  /\ apc' = "failed"
  /\ UNCHANGED <<bodyExists, bodyData, linesep, current, body, aout, runs,
                 origTarget, origExists, origBody,
                 startData>>
  /\ UNCHANGED cvars

\* print(f"Written, total size: {target.stat().st_size}")
StatPrint ==
  /\ apc = "stat_print"
  /\ targetExists
  /\ aout' = Append(aout, Len(targetData))
  /\ apc' = "done"
  /\ UNCHANGED <<targetExists, targetData, bodyExists, bodyData, linesep,
                 current, body, runs, origTarget, origExists, origBody,
                 startData>>
  /\ UNCHANGED cvars

\* target.stat() raises
StatFails ==
  /\ apc = "stat_print"
  /\ apc' = "failed"
  /\ UNCHANGED <<targetExists, targetData, bodyExists, bodyData, linesep,
                 current, body, aout, runs, origTarget, origExists, origBody,
                 startData>>
  /\ UNCHANGED cvars

\* the script is run again on the same files after a successful run
RunAgain ==
  /\ apc = "done"
  /\ runs < MaxRuns
  /\ runs' = runs + 1
  /\ apc' = "read_target"
  /\ current' = <<>>
  /\ body' = <<>>
  /\ startData' = targetData
  /\ UNCHANGED <<targetExists, targetData, bodyExists, bodyData, linesep,
                 aout, origTarget, origExists, origBody>>
  /\ UNCHANGED cvars

NextAppender ==
  \/ ReadTarget
  \/ ReadTargetFails
  \/ ReadBody
  \/ ReadBodyFails
  \/ WriteTarget
  \/ WriteTargetDenied
  \/ WriteTargetTorn
  \/ StatPrint
  \/ StatFails
  \/ RunAgain

\* ====================================================== Capture Driver
St(op, h, arg, line) == [op |-> op, h |-> h, arg |-> arg, line |-> line]

\* with sync_playwright() as p: / browser = p.chromium.launch(headless=True)
PrologueSteps == <<
  St("start", "-", "-", 3),
  St("launch", "-", "headless", 4) >>

\* lines 7-38: the desktop session
DesktopSteps == <<
  St("new_page", "page", "1440x900", 7),
  St("goto", "page", "/", 10),
  St("wait_idle", "page", "networkidle", 11),
  St("screenshot", "page", "01_landing_desktop.png", 12),
  St("print", "-", "Captured: Landing page (desktop)", 13),
  St("emulate", "page", "dark", 16),
  St("wait_timeout", "page", "500", 17),
  St("screenshot", "page", "02_landing_desktop_dark.png", 18),
  St("print", "-", "Captured: Landing page dark mode (desktop)", 19),
  St("emulate", "page", "light", 22),
  St("goto", "page", "/app", 25),
  St("wait_idle", "page", "networkidle", 26),
  St("wait_timeout", "page", "1000", 27),
  St("screenshot", "page", "03_app_page_desktop.png", 28),
  St("print", "-", "Captured: App page (desktop)", 29),
  St("goto", "page", "/test-chat", 32),
  St("wait_idle", "page", "networkidle", 33),
  St("wait_timeout", "page", "1000", 34),
  St("screenshot", "page", "04_test_chat_desktop.png", 35),
  St("print", "-", "Captured: Test chat page (desktop)", 36),
  St("close", "page", "-", 38) >>

\* lines 41-63: the mobile session
MobileSteps == <<
  St("new_page", "mobile", "390x844", 41),
  St("goto", "mobile", "/", 44),
  St("wait_idle", "mobile", "networkidle", 45),
  St("screenshot", "mobile", "05_landing_mobile.png", 46),
  St("print", "-", "Captured: Landing page (mobile)", 47),
  St("goto", "mobile", "/app", 50),
  St("wait_idle", "mobile", "networkidle", 51),
  St("wait_timeout", "mobile", "1000", 52),
  St("screenshot", "mobile", "06_app_page_mobile.png", 53),
  St("print", "-", "Captured: App page (mobile)", 54),
  St("goto", "mobile", "/test-chat", 57),
  St("wait_idle", "mobile", "networkidle", 58),
  St("wait_timeout", "mobile", "1000", 59),
  St("screenshot", "mobile", "07_test_chat_mobile.png", 60),
  St("print", "-", "Captured: Test chat page (mobile)", 61),
  St("close", "mobile", "-", 63) >>

\* lines 66-74: the tablet session
TabletSteps == <<
  St("new_page", "tablet", "768x1024", 66),
  St("goto", "tablet", "/", 69),
  St("wait_idle", "tablet", "networkidle", 70),
  St("screenshot", "tablet", "08_landing_tablet.png", 71),
  St("print", "-", "Captured: Landing page (tablet)", 72),
  St("close", "tablet", "-", 74) >>

\* browser.close() / print("\nAll screenshots captured successfully!")
EpilogueSteps == <<
  St("close_browser", "-", "-", 75),
  St("print", "-", "\nAll screenshots captured successfully!", 76) >>

\* the statements of the script, in program order
Steps == PrologueSteps \o DesktopSteps \o MobileSteps \o TabletSteps \o EpilogueSteps

NSteps == Len(Steps)

InitCapture ==
  /\ cpc = 1
  /\ cstatus = "running"
  /\ pw = "none"
  /\ browser = "none"
  /\ pages = [h \in Handles |-> NoPage]
  /\ files = <<>>
  /\ cout = <<>>
  /\ releases = <<>>
  /\ raisedAt = 0
  \* the Appender is not started, its files absent
  /\ apc = "read_target"
  /\ targetExists = FALSE
  /\ targetData = <<>>
  /\ bodyExists = FALSE
  /\ bodyData = <<>>
  /\ linesep = <<LF>>
  /\ current = <<>>
  /\ body = <<>>
  /\ aout = <<>>
  /\ runs = 1
  /\ origTarget = <<>>
  /\ origExists = FALSE
  /\ origBody = <<>>
  /\ startData = <<>>

\* the current statement, when one is about to run
AtStep(op) == cstatus = "running" /\ cpc <= NSteps /\ Steps[cpc].op = op

\* line 3: entering the with statement starts Playwright
StartPlaywright ==
  /\ AtStep("start")
  /\ pw = "none"
  /\ pw' = "started"
  /\ cpc' = cpc + 1
  /\ UNCHANGED <<cstatus, browser, pages, files, cout, releases, raisedAt>>
  /\ UNCHANGED avars

\* line 4
Launch ==
  /\ AtStep("launch")
  /\ pw = "started"
  /\ browser' = "open"
  /\ cpc' = cpc + 1
  /\ UNCHANGED <<cstatus, pw, pages, files, cout, releases, raisedAt>>
  /\ UNCHANGED avars

\* browser.new_page(viewport=...), bound to the statement's variable
NewPage ==
  /\ AtStep("new_page")
  /\ browser = "open"
  /\ pages' = [pages EXCEPT ![Steps[cpc].h] =
                 [state |-> "open", viewport |-> Steps[cpc].arg,
                  url |-> "about:blank", scheme |-> "light"]]
  /\ cpc' = cpc + 1
  /\ UNCHANGED <<cstatus, pw, browser, files, cout, releases, raisedAt>>
  /\ UNCHANGED avars

\* <page>.goto(url)
Goto ==
  /\ AtStep("goto")
  /\ pages[Steps[cpc].h].state = "open"
  /\ pages' = [pages EXCEPT ![Steps[cpc].h].url = Steps[cpc].arg]
  /\ cpc' = cpc + 1
  /\ UNCHANGED <<cstatus, pw, browser, files, cout, releases, raisedAt>>
  /\ UNCHANGED avars

\* <page>.wait_for_load_state('networkidle') returns
WaitForLoadState ==
  /\ AtStep("wait_idle")
  /\ pages[Steps[cpc].h].state = "open"
  /\ cpc' = cpc + 1
  /\ UNCHANGED <<cstatus, pw, browser, pages, files, cout, releases, raisedAt>>
  /\ UNCHANGED avars

\* <page>.wait_for_timeout(ms) returns
WaitForTimeout ==
  /\ AtStep("wait_timeout")
  /\ pages[Steps[cpc].h].state = "open"
  /\ cpc' = cpc + 1
  /\ UNCHANGED <<cstatus, pw, browser, pages, files, cout, releases, raisedAt>>
  /\ UNCHANGED avars

\* <page>.emulate_media(color_scheme=...)
EmulateMedia ==
  /\ AtStep("emulate")
  /\ pages[Steps[cpc].h].state = "open"
  /\ pages' = [pages EXCEPT ![Steps[cpc].h].scheme = Steps[cpc].arg]
  /\ cpc' = cpc + 1
  /\ UNCHANGED <<cstatus, pw, browser, files, cout, releases, raisedAt>>
  /\ UNCHANGED avars

\* variant: the screenshot is taken without a path, so no file is written
Screenshot_NoPath ==
  /\ AtStep("screenshot")
  /\ pages[Steps[cpc].h].state = "open"
  /\ cpc' = cpc + 1
  /\ UNCHANGED <<cstatus, pw, browser, pages, files, cout, releases, raisedAt>>
  /\ UNCHANGED avars

\* <page>.screenshot(path='screenshots/<name>', full_page=True)
Screenshot ==
  /\ AtStep("screenshot")
  /\ pages[Steps[cpc].h].state = "open"
  /\ files' = Append(files, Steps[cpc].arg)
  /\ cpc' = cpc + 1
  /\ UNCHANGED <<cstatus, pw, browser, pages, cout, releases, raisedAt>>
  /\ UNCHANGED avars

\* variant: the line is printed to another stream than standard output
PrintLine_OtherStream ==
  /\ AtStep("print")
  /\ cpc' = cpc + 1
  /\ UNCHANGED <<cstatus, pw, browser, pages, files, cout, releases, raisedAt>>
  /\ UNCHANGED avars

\* print(...)
PrintLine ==
  /\ AtStep("print")
  /\ cout' = Append(cout, Steps[cpc].arg)
  /\ cpc' = cpc + 1
  /\ UNCHANGED <<cstatus, pw, browser, pages, files, releases, raisedAt>>
  /\ UNCHANGED avars

\* variant: the page is not closed
ClosePage_Leaks ==
  /\ AtStep("close")
  /\ pages[Steps[cpc].h].state = "open"
  /\ releases' = Append(releases, Steps[cpc].h)
  /\ cpc' = cpc + 1
  /\ UNCHANGED <<cstatus, pw, browser, pages, files, cout, raisedAt>>
  /\ UNCHANGED avars

\* <page>.close()
ClosePage ==
  /\ AtStep("close")
  /\ pages[Steps[cpc].h].state = "open"
  /\ pages' = [pages EXCEPT ![Steps[cpc].h].state = "closed"]
  /\ releases' = Append(releases, Steps[cpc].h)
  /\ cpc' = cpc + 1
  /\ UNCHANGED <<cstatus, pw, browser, files, cout, raisedAt>>
  /\ UNCHANGED avars

\* browser.close()
CloseBrowser ==
  /\ AtStep("close_browser")
  /\ browser = "open"
  /\ browser' = "closed"
  /\ releases' = Append(releases, "browser")
  /\ cpc' = cpc + 1
  /\ UNCHANGED <<cstatus, pw, pages, files, cout, raisedAt>>
  /\ UNCHANGED avars

\* sync_playwright().__enter__ raises: the with block is never entered and
\* the exception ends the process
StartFails ==
  /\ AtStep("start")
  /\ raisedAt' = cpc
  /\ cstatus' = "exit1"
  /\ UNCHANGED <<cpc, pw, browser, pages, files, cout, releases>>
  /\ UNCHANGED avars

\* variant: the exception is caught around the statement and the run goes on
StepFails_Swallowed ==
  /\ cstatus = "running"
  /\ cpc <= NSteps
  /\ Steps[cpc].op \notin {"start", "print"}
  /\ raisedAt' = cpc
  /\ cpc' = cpc + 1
  /\ UNCHANGED <<cstatus, pw, browser, pages, files, cout, releases>>
  /\ UNCHANGED avars

\* variant: a failing screenshot has already written its file
StepFails_AfterWrite ==
  /\ cstatus = "running"
  /\ cpc <= NSteps
  /\ Steps[cpc].op \notin {"start", "print"}
  /\ raisedAt' = cpc
  /\ cstatus' = "raised"
  /\ files' = IF Steps[cpc].op = "screenshot"
              THEN Append(files, Steps[cpc].arg) ELSE files
  /\ UNCHANGED <<cpc, pw, browser, pages, cout, releases>>
  /\ UNCHANGED avars

\* a Playwright call inside the with block raises; nothing in the script
\* catches it, so it propagates to the with statement
StepFails ==
  /\ cstatus = "running"
  /\ cpc <= NSteps
  /\ Steps[cpc].op \notin {"start", "print"}
  /\ raisedAt' = cpc
  /\ cstatus' = "raised"
  /\ UNCHANGED <<cpc, pw, browser, pages, files, cout, releases>>
  /\ UNCHANGED avars

\* the with block ends normally: __exit__ stops Playwright, exit status 0
ExitScope ==
  /\ cstatus = "running"
  /\ cpc = NSteps + 1
  /\ pw' = "stopped"
  /\ releases' = Append(releases, "playwright")
  /\ cstatus' = "exit0"
  /\ UNCHANGED <<cpc, browser, pages, files, cout, raisedAt>>
  /\ UNCHANGED avars

\* variant: the browser is closed in a finally clause before the scope exits
ExitScopeOnError_ClosesBrowser ==
  /\ cstatus = "raised"
  /\ pw' = "stopped"
  /\ browser' = IF browser = "open" THEN "closed" ELSE browser
  /\ releases' = releases \o <<"browser", "playwright">>
  /\ cstatus' = "exit1"
  /\ UNCHANGED <<cpc, pages, files, cout, raisedAt>>
  /\ UNCHANGED avars

\* the with block is left by an exception: __exit__ stops Playwright, then
\* the exception ends the process with a non-zero status
ExitScopeOnError ==
  /\ cstatus = "raised"
  /\ pw' = "stopped"
  /\ releases' = Append(releases, "playwright")
  /\ cstatus' = "exit1"
  /\ UNCHANGED <<cpc, browser, pages, files, cout, raisedAt>>
  /\ UNCHANGED avars

NextCapture ==
  \/ StartPlaywright
  \/ Launch
  \/ NewPage
  \/ Goto
  \/ WaitForLoadState
  \/ WaitForTimeout
  \/ EmulateMedia
  \/ Screenshot
  \/ PrintLine
  \/ ClosePage
  \/ CloseBrowser
  \/ StartFails
  \/ StepFails
  \/ ExitScope
  \/ ExitScopeOnError

\* ============================================================ specifications
\* the Appender run (the Capture Driver is not started)
SpecAppender == InitAppender /\ [][NextAppender]_vars

\* the Capture Driver run (the Appender is not started)
SpecCapture == InitCapture /\ [][NextCapture]_vars

\* ===================================================== Appender properties

\* the bytes a run that started on startData and bodyData hands to the file
RunBytes == WriteTextBytes(ReadText(startData) \o ReadText(bodyData), linesep)

\* C1: one successful run leaves the target holding exactly A followed by B
\* and prints the size len(A) + len(B) in bytes.
C1_AppendExact ==
  (runs = 1 /\ apc = "done") =>
     /\ targetData = origTarget \o origBody
     /\ aout = <<Len(origTarget) + Len(origBody)>>

\* C2: two successive successful runs leave the target holding A + B + B.
C2_TwoRunsAppendTwice ==
  (runs = 2 /\ apc = "done") => targetData = origTarget \o origBody \o origBody

\* C3: when the target path does not exist at the start, the run fails before
\* any write: the read of the body, the write and the size line are never
\* reached, the target is not created and the body file is as it was.
C3_MissingTargetFailsBeforeWrite ==
  ~origExists =>
     /\ apc \in {"read_target", "failed"}
     /\ ~targetExists
     /\ targetData = <<>>
     /\ bodyData = origBody
     /\ aout = <<>>

\* a run on a missing target that has failed
C3_Witness == ~origExists /\ apc = "failed" /\ bodyExists /\ bodyData # <<>>

\* C8 as stated: after a failed run the target holds its original content A
\* or the fully appended content A + B, nothing else.
C8_OriginalOrAppended ==
  (apc = "failed" /\ origExists) =>
     targetData \in {startData, startData \o bodyData}

\* C8 as amended: after a failed run the target holds the bytes it had when
\* the run started, or a prefix (empty, partial or whole) of the bytes the
\* write step produces from the two texts it read.
C8_OriginalOrPrefixOfWritten ==
  (apc = "failed" /\ origExists) =>
     /\ targetExists
     /\ \/ targetData = startData
        \/ /\ IsUtf8(startData)
           /\ bodyExists
           /\ IsUtf8(bodyData)
           /\ targetData \in Prefixes(RunBytes)

\* a run that failed in the middle of the write, leaving a torn target
C8_Witness ==
  /\ apc = "failed"
  /\ origExists
  /\ startData # <<>>
  /\ targetData # startData
  /\ IsUtf8(startData)
  /\ IsUtf8(bodyData)
  /\ targetData # RunBytes
  /\ targetData # <<>>

\* =============================================== Capture Driver properties

\* the eight artifacts, in the order of section 4.2
ExpectedFiles == <<
  "01_landing_desktop.png", "02_landing_desktop_dark.png",
  "03_app_page_desktop.png", "04_test_chat_desktop.png",
  "05_landing_mobile.png", "06_app_page_mobile.png",
  "07_test_chat_mobile.png", "08_landing_tablet.png" >>

\* the eight progress lines, in the order of the captures
ExpectedLines == <<
  "Captured: Landing page (desktop)",
  "Captured: Landing page dark mode (desktop)",
  "Captured: App page (desktop)",
  "Captured: Test chat page (desktop)",
  "Captured: Landing page (mobile)",
  "Captured: App page (mobile)",
  "Captured: Test chat page (mobile)",
  "Captured: Landing page (tablet)" >>

IsProgress(l) == \E i \in 1..Len(ExpectedLines) : ExpectedLines[i] = l

\* the "Captured: ..." lines on standard output
Progress == SelectSeq(cout, IsProgress)

Failed == cstatus \in {"raised", "exit1"}

OpenPages == {h \in Handles : pages[h].state = "open"}

ClosedPages == {h \in Handles : pages[h].state = "closed"}

PageOps == {"goto", "wait_idle", "wait_timeout", "emulate", "screenshot"}

\* the first page.goto of the script
FirstGoto ==
  CHOOSE i \in 1..NSteps :
    Steps[i].op = "goto" /\ \A j \in 1..(i - 1) : Steps[j].op # "goto"

\* the capture a statement belongs to: the one whose screenshot is the next
\* to be taken at or after that statement
CaptureOf(i) == 1 + Cardinality({j \in 1..(i - 1) : Steps[j].op = "screenshot"})

\* number of close statements before statement i
ClosesBefore(i) ==
  Cardinality({j \in 1..(i - 1) : Steps[j].op \in {"close", "close_browser"}})

ReleaseOrder == <<"page", "mobile", "tablet", "browser", "playwright">>

\* C4: a run in which every browser step succeeds writes exactly the 8 named
\* files, each once, in the listed order; at any point the files written are
\* an initial part of that list.
C4_EightFilesInOrder ==
  /\ Len(files) <= Len(ExpectedFiles)
  /\ files = SubSeq(ExpectedFiles, 1, Len(files))
  /\ cstatus = "exit0" => files = ExpectedFiles

\* a completed run
C4_Witness == cstatus = "exit0" /\ raisedAt = 0 /\ Len(files) = 8

\* C5: the progress lines follow the captures one for one and in order: the
\* number printed is the number of captures completed or one less, a capture
\* not yet reported is reported by the very next statement, and a successful
\* run ends with exactly 8 of them.
C5_ProgressFollowsCaptures ==
  /\ Len(Progress) <= Len(ExpectedLines)
  /\ Progress = SubSeq(ExpectedLines, 1, Len(Progress))
  /\ Len(Progress) \in {Len(files), Len(files) - 1}
  /\ Len(Progress) < Len(files) =>
       (cstatus = "running" /\ Steps[cpc].op = "print")
  /\ cstatus = "exit0" => Len(Progress) = 8

\* the eighth capture is taken and not yet reported
C5_Witness == Len(files) = 8 /\ Len(Progress) = 7

\* C6: when the first navigation fails the run ends in failure at that
\* statement with no screenshot written and no progress line printed.
C6_UnreachableServer ==
  raisedAt = FirstGoto =>
     /\ Failed
     /\ cpc = FirstGoto
     /\ files = <<>>
     /\ Progress = <<>>

\* the run has ended after the first navigation failed
C6_Witness == raisedAt = FirstGoto /\ cstatus = "exit1"

\* C7: at most one page is open at a time, a session is closed before the
\* next one is opened, and every navigate, wait, emulate and screenshot is
\* issued on the one page that is open.
C7_OnePageAtATime ==
  /\ Cardinality(OpenPages) <= 1
  /\ pages["mobile"].state # "unbound" => pages["page"].state = "closed"
  /\ pages["tablet"].state # "unbound" => pages["mobile"].state = "closed"
  /\ (cstatus = "running" /\ cpc <= NSteps /\ Steps[cpc].op \in PageOps) =>
        OpenPages = {Steps[cpc].h}

\* the tablet page is about to be captured
C7_Witness ==
  /\ cstatus = "running"
  /\ cpc <= NSteps
  /\ Steps[cpc].op = "screenshot"
  /\ OpenPages = {"tablet"}

C10_NoReleaseAfterFailure ==
  raisedAt # 0 => releases = SubSeq(ReleaseOrder, 1, ClosesBefore(raisedAt))

\* C10 as amended: releases happen at most once each in the order page,
\* mobile, tablet, browser, with-scope; after a failure no page or browser is
\* closed any more, browser.close() has not completed, and the only release
\* still performed is the exit of the enclosing with scope, which a failure
\* inside the with block always reaches before the process ends.
C10_OnlyScopeExitAfterFailure ==
  /\ raisedAt = 0 =>
       /\ Len(releases) <= Len(ReleaseOrder)
       /\ releases = SubSeq(ReleaseOrder, 1, Len(releases))
  /\ cstatus = "exit0" => releases = ReleaseOrder
  /\ raisedAt # 0 =>
       /\ browser # "closed"
       /\ Cardinality(ClosedPages) =
            IF ClosesBefore(raisedAt) < 3 THEN ClosesBefore(raisedAt) ELSE 3
       /\ \/ releases = SubSeq(ReleaseOrder, 1, ClosesBefore(raisedAt))
          \/ /\ raisedAt > 1
             /\ cstatus = "exit1"
             /\ releases = Append(SubSeq(ReleaseOrder, 1, ClosesBefore(raisedAt)),
                                  "playwright")
  /\ (cstatus = "exit1" /\ raisedAt > 1) => pw = "stopped"

\* a failed run that has ended with the browser and a page never closed
C10_Witness ==
  /\ cstatus = "exit1"
  /\ browser = "open"
  /\ OpenPages # {}
  /\ pw = "stopped"

====
